---------------------------- MODULE Spec2Model ----------------------------
(***************************************************************************)
(* A model of go-pgxshard's ShardManager (shardmanager.go): construction   *)
(* over a list of connection strings, the pluggable shard index function,  *)
(* lookup, listing, ping and close, called by concurrent goroutines.       *)
(*                                                                         *)
(* Go indexes from 0; the shard slice is a function over 0..n-1.  Pools    *)
(* live in a heap (a sequence of pool records); a *pgxpool.Pool is the     *)
(* heap index of its record, and the nil pointer is NilPool.               *)
(*                                                                         *)
(* Shard reads s.shardIndexFunc without s.mu while SetShardIndexFunc       *)
(* writes it under s.mu: a data race.  By Go's memory model such a read of *)
(* a word-sized value observes some write that it does not happen before   *)
(* and that no later write, ordered before the read, hides.  visible[t] is *)
(* the set of these writes for goroutine t: taking s.mu leaves the latest  *)
(* write alone, a write by another goroutine adds to it.                   *)
(*                                                                         *)
(* An unrecovered panic ends the goroutine (pc = "panicked"); the others   *)
(* go on, which covers a caller that recovers as well as one that dies.    *)
(***************************************************************************)
EXTENDS Integers, Sequences, FiniteSets, TLC

\* ------------------------------------------------------------------ bounds

\* the longest connectionStrings slice handed to New
MaxTargets == 3
\* the number of goroutines calling the manager concurrently
NumThreads == 2

Threads == 1..NumThreads

\* ------------------------------------------------- machine integers of Go
(***************************************************************************)
(* An integer v is held as [hi, lo] with v = hi * W + lo and 0 <= lo < W,  *)
(* so that 64-bit key values and 32-bit checksums stay inside the          *)
(* model checker's own integers.  intBits is the width of Go's int on the  *)
(* build: 32 or 64.                                                        *)
(***************************************************************************)
W == 256 * 256
HalfW == W \div 2

Wide(hi, lo) == [hi |-> hi, lo |-> lo]

\* the value of a small integer (|v| < W) as a wide integer
WideOf(v) == IF v >= 0 THEN Wide(0, v) ELSE Wide(-1, W + v)

\* int(v): conversion of an int32/int64/uint32 value to the build's int.
\* A 64-bit int holds every modelled value; a 32-bit int keeps the low 32
\* bits, read as two's complement.
IntConv(v, bits) ==
    IF bits = 64 THEN v
    ELSE Wide(((v.hi + HalfW) % W) - HalfW, v.lo)

\* |v| mod n for n >= 1, computed in parts
AbsMod(v, n) ==
    IF v.hi >= 0
    THEN (((v.hi % n) * (W % n)) + v.lo) % n
    ELSE ((((-v.hi - 1) % n) * (W % n)) + (W - v.lo)) % n

\* Go's v % n for n # 0: the remainder of truncated division, with the
\* sign of the dividend
GoRem(v, n) == IF v.hi >= 0 THEN AbsMod(v, n) ELSE -AbsMod(v, n)

\* ------------------------------------------------------- hash/crc32 (IEEE)
(***************************************************************************)
(* A uint32 is a wide integer with 0 <= hi < W.                            *)
(***************************************************************************)
RECURSIVE Xor16(_, _)
Xor16(a, b) ==
    IF a = 0 /\ b = 0 THEN 0
    ELSE (((a % 2) + (b % 2)) % 2) + (2 * Xor16(a \div 2, b \div 2))

Xor32(a, b) == Wide(Xor16(a.hi, b.hi), Xor16(a.lo, b.lo))

\* a >> 1
Shr1(a) == Wide(a.hi \div 2, (a.lo \div 2) + ((a.hi % 2) * HalfW))

AllOnes == Wide(W - 1, W - 1)

\* the reversed IEEE polynomial 0xEDB88320
PolyHi == 60856
PolyLo == 33568
IEEEPoly == Wide(PolyHi, PolyLo)

\* n shift-and-xor rounds of the bitwise CRC
RECURSIVE CrcRounds(_, _)
CrcRounds(crc, n) ==
    IF n = 0 THEN crc
    ELSE CrcRounds(IF crc.lo % 2 = 1 THEN Xor32(Shr1(crc), IEEEPoly) ELSE Shr1(crc), n - 1)

\* crc32.IEEETable: the entry of byte b is b after eight rounds
IEEETable == [b \in 0..255 |-> CrcRounds(Wide(0, b), 8)]

\* a >> 8
Shr8(a) == Wide(a.hi \div 256, (a.lo \div 256) + ((a.hi % 256) * 256))

\* the register after the bytes, from the register before them:
\* crc = tab[byte(crc) ^ b] ^ (crc >> 8) for each byte b in order
RECURSIVE CrcUpdate(_, _)
CrcUpdate(crc, bytes) ==
    IF bytes = <<>> THEN crc
    ELSE LET prev == CrcUpdate(crc, SubSeq(bytes, 1, Len(bytes) - 1))
         IN  Xor32(IEEETable[Xor16(prev.lo % 256, bytes[Len(bytes)])], Shr8(prev))

\* crc32.ChecksumIEEE(data)
ChecksumIEEE(bytes) == Xor32(CrcUpdate(AllOnes, bytes), AllOnes)

\* -------------------------------------------------------------- shard keys
(***************************************************************************)
(* A key is a value of dynamic type (any): its type, and its value as a    *)
(* wide integer (the integer types) or as bytes (string).                  *)
(***************************************************************************)
IntKey(type, v) == [type |-> type, val |-> v, bytes |-> <<>>]
StringKey(b) == [type |-> "string", val |-> Wide(0, 0), bytes |-> b]
OtherKey == [type |-> "float64", val |-> Wide(0, 0), bytes |-> <<>>]
NoKey == [type |-> "none", val |-> Wide(0, 0), bytes |-> <<>>]

\* the keys the goroutines look up: -7, int32(5), "a" and a float64
Keys == { IntKey("int", WideOf(-7)), IntKey("int32", WideOf(5)), StringKey(<<97>>), OtherKey }

\* ------------------------------------------------------------------ errors
\* an error value: its message, the numbers formatted into it (%d) and the
\* error wrapped in it (%v); NilErr is the nil error
Err(msg, args, cause) == [msg |-> msg, args |-> args, cause |-> cause]
NilErr == Err("", <<>>, "")

\* ------------------------------------------------- shard index functions
\* what a call of a shard index function does: return (index, nil), return
\* (0, err), or panic
Returns(index) == [kind |-> "ok", index |-> index, err |-> NilErr]
Fails(err) == [kind |-> "err", index |-> 0, err |-> err]
Panics == [kind |-> "panic", index |-> 0, err |-> NilErr]

\* v % numShards on machine integers: a zero divisor is a run-time panic
Rem(v, numShards) == IF numShards = 0 THEN Panics ELSE Returns(GoRem(v, numShards))

\* the default function with a fallback in place of the default case: a key
\* of any other type goes to shard 0
defaultShardIndexFuncZero(key, n, bits) ==
    CASE key.type = "int"    -> Rem(key.val, n)
      [] key.type = "int32"  -> Rem(IntConv(key.val, bits), n)
      [] key.type = "int64"  -> Rem(IntConv(key.val, bits), n)
      [] key.type = "string" -> Rem(IntConv(ChecksumIEEE(key.bytes), bits), n)
      [] OTHER               -> Returns(0)

defaultShardIndexFunc(key, n, bits) ==
    CASE key.type = "int"    -> Rem(key.val, n)
      [] key.type = "int32"  -> Rem(IntConv(key.val, bits), n)
      [] key.type = "int64"  -> Rem(IntConv(key.val, bits), n)
      [] key.type = "string" -> Rem(IntConv(ChecksumIEEE(key.bytes), bits), n)
      [] OTHER               -> Fails(Err("shard key type not supported", <<>>, ""))

\* the functions callers install with SetShardIndexFunc: always index 1,
\* always index -1
CustomFuncs == {"one", "minusOne"}
IndexFuncs == {"default"} \cup CustomFuncs

\* the call f(key, numShards)
CallIndexFunc(f, key, n, bits) ==
    CASE f = "default"  -> defaultShardIndexFunc(key, n, bits)
      [] f = "one"      -> Returns(1)
      [] f = "minusOne" -> Returns(-1)

\* ------------------------------------------------------------ pgxpool.Pool
NilPool == 0

\* connection strings: two databases that accept connections, the second of
\* which stops answering after it was connected, and one that refuses
DSNs == {"up", "flaky", "bad"}

\* pgxpool.New(ctx, connStr) succeeds
PoolNewOk(connStr) == connStr # "bad"

\* len of a Go slice held as a function over 0..n-1
SliceLen(s) == Cardinality(DOMAIN s)

\* all slices of length n over S
Slices(S, n) == [0..(n - 1) -> S]

\* ------------------------------------------------------------------- state
VARIABLES
    connectionStrings,  \* New's argument: a slice of DSNs
    intBits,            \* the width of int on the build
    newPc,              \* New: "loop", "failed" (returned nil, err), "done"
    newI,               \* New: the loop index i
    newShards,          \* New: the local slice shards
    newRet,             \* New: what it returned
    connLog,            \* the positions pgxpool.New was called for, in order
    pools,              \* the heap of pools: [dsn, state] ("open", "closed")
    shards,             \* ShardManager.shards
    numShards,          \* ShardManager.numShards
    shardIndexFunc,     \* ShardManager.shardIndexFunc
    mu,                 \* ShardManager.mu: 0 (unlocked) or the goroutine holding it
    pc,                 \* per goroutine: where it is
    key,                \* per goroutine: Shard's argument key
    fn,                 \* per goroutine: SetShardIndexFunc's argument f, or the
                        \* function Shard loaded from s.shardIndexFunc
    idx,                \* per goroutine: the index of the range loop in Ping, Close
    ret,                \* per goroutine: what its last call returned
    visible,            \* per goroutine: the writes of s.shardIndexFunc a read
                        \* that takes no lock may observe
    pingLog             \* the positions shard.Ping was called for, in order, in
                        \* the earlier iterations of the Ping call that is inside
                        \* its loop

ctorVars == <<connectionStrings, intBits, newPc, newI, newShards, newRet, connLog>>
mgrVars == <<shards, numShards, shardIndexFunc, mu>>
thrVars == <<pc, key, fn, idx, ret, visible>>
vars == <<ctorVars, pools, mgrVars, thrVars, pingLog>>

NoRet == [op |-> "none", kind |-> "none", pool |-> NilPool, list |-> <<>>, err |-> NilErr]

Init ==
    /\ connectionStrings \in UNION { Slices(DSNs, n) : n \in 0..MaxTargets }
    /\ intBits \in {32, 64}
    /\ newPc = "loop"
    /\ newI = 0
    \* shards := make([]*pgxpool.Pool, len(connectionStrings))
    /\ newShards = [i \in DOMAIN connectionStrings |-> NilPool]
    /\ newRet = [mgr |-> FALSE, err |-> NilErr]
    /\ connLog = <<>>
    /\ pools = <<>>
    /\ shards = <<>>
    /\ numShards = 0
    /\ shardIndexFunc = "none"
    /\ mu = 0
    /\ pc = [t \in Threads |-> "idle"]
    /\ key = [t \in Threads |-> NoKey]
    /\ fn = [t \in Threads |-> "none"]
    /\ idx = [t \in Threads |-> 0]
    /\ ret = [t \in Threads |-> NoRet]
    /\ visible = [t \in Threads |-> {}]
    /\ pingLog = <<>>

\* --------------------------------------------------------------------- New
\* a New that reports positions counted from 1
ConnectErrorOneBased(i) == Err("failed to connect to shard %d: %v", <<i + 1>>, "connect failed")

\* the error New returns for position i
ConnectError(i) == Err("failed to connect to shard %d: %v", <<i>>, "connect failed")

\* a New that appends every pool at the front of the slice
StorePoolReversed(sh, i, db) == [sh EXCEPT ![SliceLen(sh) - 1 - i] = db]

\* shards[i] = db
StorePool(sh, i, db) == [sh EXCEPT ![i] = db]

\* one iteration of the range loop: pgxpool.New, then return on its error or
\* store the pool at shards[i]
NewConnect ==
    /\ newPc = "loop"
    /\ newI < SliceLen(connectionStrings)
    /\ connLog' = Append(connLog, newI)
    /\ IF PoolNewOk(connectionStrings[newI])
       THEN /\ pools' = Append(pools, [dsn |-> connectionStrings[newI], state |-> "open"])
            /\ newShards' = StorePool(newShards, newI, Len(pools) + 1)
            /\ newI' = newI + 1
            /\ UNCHANGED <<newPc, newRet>>
       ELSE /\ newPc' = "failed"
            /\ newRet' = [mgr |-> FALSE, err |-> ConnectError(newI)]
            /\ UNCHANGED <<pools, newShards, newI>>
    /\ UNCHANGED <<connectionStrings, intBits, mgrVars, thrVars, pingLog>>

\* the loop is over: return &ShardManager{...}, nil
NewReturn ==
    /\ newPc = "loop"
    /\ newI = SliceLen(connectionStrings)
    /\ shards' = newShards
    /\ numShards' = SliceLen(newShards)
    /\ shardIndexFunc' = "default"
    /\ newPc' = "done"
    /\ newRet' = [mgr |-> TRUE, err |-> NilErr]
    \* the goroutines get the manager from New: the write of the default
    \* function happens before everything they do
    /\ visible' = [t \in Threads |-> {"default"}]
    /\ UNCHANGED <<connectionStrings, intBits, newI, newShards, connLog, pools, mu>>
    /\ UNCHANGED <<pc, key, fn, idx, ret, pingLog>>

\* the manager exists: New returned it
Ready == newPc = "done"

\* what a call of a manager method returned (or that it panicked)
Ret(op, kind, pool, list, err) ==
    [op |-> op, kind |-> kind, pool |-> pool, list |-> list, err |-> err]

\* s.mu.Lock() returns: every earlier critical section happens before it, so
\* the goroutine now sees the latest write of s.shardIndexFunc and no older
Lock(t) ==
    /\ mu = 0
    /\ mu' = t
    /\ visible' = [visible EXCEPT ![t] = {shardIndexFunc}]

\* the deferred s.mu.Unlock()
Unlock(t) == mu' = 0

\* ------------------------------------------------------- SetShardIndexFunc
SetCall(t, f) ==
    /\ Ready /\ pc[t] = "idle"
    /\ pc' = [pc EXCEPT ![t] = "set_lock"]
    /\ fn' = [fn EXCEPT ![t] = f]
    /\ ret' = [ret EXCEPT ![t] = NoRet]
    /\ UNCHANGED <<ctorVars, pingLog, pools, mgrVars, key, idx, visible>>

SetLock(t) ==
    /\ pc[t] = "set_lock"
    /\ Lock(t)
    /\ pc' = [pc EXCEPT ![t] = "set_store"]
    /\ UNCHANGED <<ctorVars, pingLog, pools, shards, numShards, shardIndexFunc>>
    /\ UNCHANGED <<key, fn, idx, ret>>

\* a setter that assigns a fresh struct, *s = ShardManager{shardIndexFunc: f}:
\* the shard slice and numShards are zeroed with it
SetShardIndexFuncResetsManager(t) ==
    /\ pc[t] = "set_store"
    /\ shardIndexFunc' = fn[t]
    /\ shards' = <<>>
    /\ numShards' = 0
    /\ visible' = [u \in Threads |-> IF u = t THEN {fn[t]} ELSE visible[u] \cup {fn[t]}]
    /\ Unlock(t)
    /\ pc' = [pc EXCEPT ![t] = "idle"]
    /\ ret' = [ret EXCEPT ![t] = Ret("SetShardIndexFunc", "ok", NilPool, <<>>, NilErr)]
    /\ fn' = [fn EXCEPT ![t] = "none"]
    /\ UNCHANGED <<ctorVars, pingLog, pools, key, idx>>

\* s.shardIndexFunc = f, then the deferred unlock and the return.  The writer
\* sees its own write; a goroutine that has not synchronised since may still
\* observe what it could before, or this write.
SetShardIndexFunc(t) ==
    /\ pc[t] = "set_store"
    /\ shardIndexFunc' = fn[t]
    /\ visible' = [u \in Threads |-> IF u = t THEN {fn[t]} ELSE visible[u] \cup {fn[t]}]
    /\ Unlock(t)
    /\ pc' = [pc EXCEPT ![t] = "idle"]
    /\ ret' = [ret EXCEPT ![t] = Ret("SetShardIndexFunc", "ok", NilPool, <<>>, NilErr)]
    /\ fn' = [fn EXCEPT ![t] = "none"]
    /\ UNCHANGED <<ctorVars, pingLog, pools, shards, numShards, key, idx>>

\* ------------------------------------------------------------------- Shard
\* the goroutines inside SetShardIndexFunc: called, not yet returned
Replacing == { u \in Threads : pc[u] \in {"set_lock", "set_store"} }

\* line 69, first half: the call starts, and s.shardIndexFunc is loaded with
\* no lock held.  The load races with the store in SetShardIndexFunc: it
\* observes one of the writes visible to this goroutine.
ShardCall(t, k) ==
    /\ Ready /\ pc[t] = "idle"
    /\ \E f \in visible[t] : fn' = [fn EXCEPT ![t] = f]
    /\ key' = [key EXCEPT ![t] = k]
    /\ pc' = [pc EXCEPT ![t] = "shard_call"]
    /\ ret' = [ret EXCEPT ![t] = NoRet]
    /\ UNCHANGED <<ctorVars, pingLog, pools, mgrVars, idx, visible>>

\* a range check that lets index = len(s.shards) through
IndexOutOfRangeOffByOne(index, sh) == index < 0 \/ index > SliceLen(sh)

\* index < 0 || index > len(s.shards)-1
IndexOutOfRange(index, sh) == index < 0 \/ index > SliceLen(sh) - 1

\* a Shard that looks at the pool it is about to return: a closed one is
\* refused with an error
ShardRefusesClosed(f, k) ==
    LET r == CallIndexFunc(f, k, numShards, intBits) IN
    CASE r.kind = "panic" -> [kind |-> "panic", pool |-> NilPool, err |-> NilErr]
      [] r.kind = "err"   -> [kind |-> "err", pool |-> NilPool, err |-> r.err]
      [] r.kind = "ok" /\ IndexOutOfRange(r.index, shards) ->
            [kind |-> "err", pool |-> NilPool,
             err |-> Err("shard index %d is out of range", <<r.index>>, "")]
      [] OTHER ->
            IF r.index \in DOMAIN shards
            THEN IF pools[shards[r.index]].state = "closed"
                 THEN [kind |-> "err", pool |-> NilPool,
                       err |-> Err("closed pool", <<>>, "")]
                 ELSE [kind |-> "ok", pool |-> shards[r.index], err |-> NilErr]
            ELSE [kind |-> "panic", pool |-> NilPool, err |-> NilErr]

\* lines 69-78 after the load: call the function, check the index, index the
\* slice (an index outside the slice is a run-time panic)
Shard(f, k) ==
    LET r == CallIndexFunc(f, k, numShards, intBits) IN
    CASE r.kind = "panic" -> [kind |-> "panic", pool |-> NilPool, err |-> NilErr]
      [] r.kind = "err"   -> [kind |-> "err", pool |-> NilPool, err |-> r.err]
      [] r.kind = "ok" /\ IndexOutOfRange(r.index, shards) ->
            [kind |-> "err", pool |-> NilPool,
             err |-> Err("shard index %d is out of range", <<r.index>>, "")]
      [] OTHER ->
            IF r.index \in DOMAIN shards
            THEN [kind |-> "ok", pool |-> shards[r.index], err |-> NilErr]
            ELSE [kind |-> "panic", pool |-> NilPool, err |-> NilErr]

\* a Shard that takes the manager's lock before it returns: it goes on only
\* when the lock is free
ShardReturnsUnderLock(t, r) ==
    /\ pc[t] = "shard_call"
    /\ mu = 0
    /\ ret' = [ret EXCEPT ![t] = Ret("Shard", r.kind, r.pool, <<>>, r.err)]
    /\ pc' = [pc EXCEPT ![t] = IF r.kind = "panic" THEN "panicked" ELSE "idle"]
    /\ key' = [key EXCEPT ![t] = NoKey]
    /\ fn' = [fn EXCEPT ![t] = "none"]
    /\ UNCHANGED <<ctorVars, pingLog, pools, mgrVars, idx, visible>>

\* Shard returns r to goroutine t, with no lock taken; a panic ends the
\* goroutine
ShardReturns(t, r) ==
    /\ pc[t] = "shard_call"
    /\ ret' = [ret EXCEPT ![t] = Ret("Shard", r.kind, r.pool, <<>>, r.err)]
    /\ pc' = [pc EXCEPT ![t] = IF r.kind = "panic" THEN "panicked" ELSE "idle"]
    /\ key' = [key EXCEPT ![t] = NoKey]
    /\ fn' = [fn EXCEPT ![t] = "none"]
    /\ UNCHANGED <<ctorVars, pingLog, pools, mgrVars, idx, visible>>

\* the rest of Shard, to its return
ShardReturn(t) == ShardReturns(t, Shard(fn[t], key[t]))

\* ------------------------------------------------------------------ Shards
ShardsCall(t) ==
    /\ Ready /\ pc[t] = "idle"
    /\ pc' = [pc EXCEPT ![t] = "shards_lock"]
    /\ ret' = [ret EXCEPT ![t] = NoRet]
    /\ UNCHANGED <<ctorVars, pingLog, pools, mgrVars, key, fn, idx, visible>>

ShardsLock(t) ==
    /\ pc[t] = "shards_lock"
    /\ Lock(t)
    /\ pc' = [pc EXCEPT ![t] = "shards_ret"]
    /\ UNCHANGED <<ctorVars, pingLog, pools, shards, numShards, shardIndexFunc>>
    /\ UNCHANGED <<key, fn, idx, ret>>

\* return s.shards, nil, with the deferred unlock
Shards(t) ==
    /\ pc[t] = "shards_ret"
    /\ ret' = [ret EXCEPT ![t] = Ret("Shards", "ok", NilPool, shards, NilErr)]
    /\ Unlock(t)
    /\ pc' = [pc EXCEPT ![t] = "idle"]
    /\ UNCHANGED <<ctorVars, pingLog, pools, shards, numShards, shardIndexFunc>>
    /\ UNCHANGED <<key, fn, idx, visible>>

\* -------------------------------------------------------------------- Ping
\* (*pgxpool.Pool).Ping: nil, or the pool's own error, which carries no
\* shard position
PoolPing(p) ==
    CASE pools[p].state # "open" -> Err("closed pool", <<>>, "")
      [] pools[p].state = "open" /\ pools[p].dsn = "flaky" -> Err("ping failed", <<>>, "")
      [] OTHER -> NilErr

PingCall(t) ==
    /\ Ready /\ pc[t] = "idle"
    /\ pc' = [pc EXCEPT ![t] = "ping_lock"]
    /\ ret' = [ret EXCEPT ![t] = NoRet]
    /\ UNCHANGED <<ctorVars, pingLog, pools, mgrVars, key, fn, idx, visible>>

PingLock(t) ==
    /\ pc[t] = "ping_lock"
    /\ Lock(t)
    /\ pc' = [pc EXCEPT ![t] = "ping_loop"]
    /\ idx' = [idx EXCEPT ![t] = 0]
    /\ pingLog' = <<>>
    /\ UNCHANGED <<ctorVars, pools, shards, numShards, shardIndexFunc>>
    /\ UNCHANGED <<key, fn, ret>>

\* the loop with one more try for a shard that failed: only the second
\* failure in a row is returned
PingStepRetries(t) ==
    /\ pc[t] = "ping_loop"
    /\ idx[t] < SliceLen(shards)
    /\ LET err == PoolPing(shards[idx[t]])
           tried == pingLog # <<>> /\ pingLog[Len(pingLog)] = idx[t]
       IN  CASE err # NilErr /\ tried ->
                    /\ ret' = [ret EXCEPT ![t] = Ret("Ping", "err", NilPool, <<>>, err)]
                    /\ Unlock(t)
                    /\ pc' = [pc EXCEPT ![t] = "idle"]
                    /\ idx' = [idx EXCEPT ![t] = 0]
                    /\ pingLog' = <<>>
             [] err # NilErr /\ ~tried ->
                    /\ pingLog' = Append(pingLog, idx[t])
                    /\ UNCHANGED <<ret, mu, pc, idx>>
             [] OTHER ->
                    /\ idx' = [idx EXCEPT ![t] = idx[t] + 1]
                    /\ pingLog' = Append(pingLog, idx[t])
                    /\ UNCHANGED <<ret, mu, pc>>
    /\ UNCHANGED <<ctorVars, pools, shards, numShards, shardIndexFunc>>
    /\ UNCHANGED <<key, fn, visible>>

\* the loop with the unlock at the end of the function only: the return on
\* a failing shard leaves the lock held
PingStepKeepsLock(t) ==
    /\ pc[t] = "ping_loop"
    /\ idx[t] < SliceLen(shards)
    /\ LET err == PoolPing(shards[idx[t]]) IN
        IF err # NilErr
        THEN /\ ret' = [ret EXCEPT ![t] = Ret("Ping", "err", NilPool, <<>>, err)]
             /\ pc' = [pc EXCEPT ![t] = "idle"]
             /\ idx' = [idx EXCEPT ![t] = 0]
             /\ pingLog' = <<>>
             /\ UNCHANGED mu
        ELSE /\ idx' = [idx EXCEPT ![t] = idx[t] + 1]
             /\ pingLog' = Append(pingLog, idx[t])
             /\ UNCHANGED <<ret, mu, pc>>
    /\ UNCHANGED <<ctorVars, pools, shards, numShards, shardIndexFunc>>
    /\ UNCHANGED <<key, fn, visible>>

\* one iteration of the range loop: ping the shard; on an error return it
\* as it is (the deferred unlock runs), else go on
PingStep(t) ==
    /\ pc[t] = "ping_loop"
    /\ idx[t] < SliceLen(shards)
    /\ LET err == PoolPing(shards[idx[t]]) IN
        IF err # NilErr
        THEN /\ ret' = [ret EXCEPT ![t] = Ret("Ping", "err", NilPool, <<>>, err)]
             /\ Unlock(t)
             /\ pc' = [pc EXCEPT ![t] = "idle"]
             /\ idx' = [idx EXCEPT ![t] = 0]
             /\ pingLog' = <<>>
        ELSE /\ idx' = [idx EXCEPT ![t] = idx[t] + 1]
             /\ pingLog' = Append(pingLog, idx[t])
             /\ UNCHANGED <<ret, mu, pc>>
    /\ UNCHANGED <<ctorVars, pools, shards, numShards, shardIndexFunc>>
    /\ UNCHANGED <<key, fn, visible>>

\* the loop is over: return nil, with the deferred unlock
Ping(t) ==
    /\ pc[t] = "ping_loop"
    /\ idx[t] = SliceLen(shards)
    /\ ret' = [ret EXCEPT ![t] = Ret("Ping", "ok", NilPool, <<>>, NilErr)]
    /\ Unlock(t)
    /\ pc' = [pc EXCEPT ![t] = "idle"]
    /\ idx' = [idx EXCEPT ![t] = 0]
    /\ pingLog' = <<>>
    /\ UNCHANGED <<ctorVars, pools, shards, numShards, shardIndexFunc>>
    /\ UNCHANGED <<key, fn, visible>>

\* ------------------------------------------------------------------- Close
\* (*pgxpool.Pool).Close: the pool is closed; closing a closed pool does nothing
PoolClose(p) == [pools EXCEPT ![p].state = "closed"]

CloseCall(t) ==
    /\ Ready /\ pc[t] = "idle"
    /\ pc' = [pc EXCEPT ![t] = "close_lock"]
    /\ ret' = [ret EXCEPT ![t] = NoRet]
    /\ UNCHANGED <<ctorVars, pingLog, pools, mgrVars, key, fn, idx, visible>>

CloseLock(t) ==
    /\ pc[t] = "close_lock"
    /\ Lock(t)
    /\ pc' = [pc EXCEPT ![t] = "close_loop"]
    /\ idx' = [idx EXCEPT ![t] = 0]
    /\ UNCHANGED <<ctorVars, pingLog, pools, shards, numShards, shardIndexFunc>>
    /\ UNCHANGED <<key, fn, ret>>

\* the loop with a guard against closing twice: a shard that is closed
\* already makes Close return an error
CloseStepRejectsClosed(t) ==
    /\ pc[t] = "close_loop"
    /\ idx[t] < SliceLen(shards)
    /\ IF pools[shards[idx[t]]].state = "closed"
       THEN /\ ret' = [ret EXCEPT ![t] =
                        Ret("Close", "err", NilPool, <<>>, Err("closed pool", <<>>, ""))]
            /\ Unlock(t)
            /\ pc' = [pc EXCEPT ![t] = "idle"]
            /\ idx' = [idx EXCEPT ![t] = 0]
            /\ UNCHANGED pools
       ELSE /\ pools' = PoolClose(shards[idx[t]])
            /\ idx' = [idx EXCEPT ![t] = idx[t] + 1]
            /\ UNCHANGED <<mu, pc, ret>>
    /\ UNCHANGED <<ctorVars, pingLog, shards, numShards, shardIndexFunc, key, fn, visible>>

\* one iteration of the range loop: shard.Close()
CloseStep(t) ==
    /\ pc[t] = "close_loop"
    /\ idx[t] < SliceLen(shards)
    /\ pools' = PoolClose(shards[idx[t]])
    /\ idx' = [idx EXCEPT ![t] = idx[t] + 1]
    /\ UNCHANGED <<ctorVars, pingLog, mgrVars, pc, key, fn, ret, visible>>

\* Close that drops the pools it closed: s.shards = nil before it returns
CloseTruncates(t) ==
    /\ pc[t] = "close_loop"
    /\ idx[t] = SliceLen(shards)
    /\ shards' = <<>>
    /\ ret' = [ret EXCEPT ![t] = Ret("Close", "ok", NilPool, <<>>, NilErr)]
    /\ Unlock(t)
    /\ pc' = [pc EXCEPT ![t] = "idle"]
    /\ idx' = [idx EXCEPT ![t] = 0]
    /\ UNCHANGED <<ctorVars, pingLog, pools, numShards, shardIndexFunc>>
    /\ UNCHANGED <<key, fn, visible>>

\* Close with the return inside the loop: it returns nil once the first
\* shard is closed
CloseReturnsEarly(t) ==
    /\ pc[t] = "close_loop"
    /\ idx[t] = (IF SliceLen(shards) = 0 THEN 0 ELSE 1)
    /\ ret' = [ret EXCEPT ![t] = Ret("Close", "ok", NilPool, <<>>, NilErr)]
    /\ Unlock(t)
    /\ pc' = [pc EXCEPT ![t] = "idle"]
    /\ idx' = [idx EXCEPT ![t] = 0]
    /\ UNCHANGED <<ctorVars, pingLog, pools, shards, numShards, shardIndexFunc>>
    /\ UNCHANGED <<key, fn, visible>>

\* the loop is over: return nil, with the deferred unlock
Close(t) ==
    /\ pc[t] = "close_loop"
    /\ idx[t] = SliceLen(shards)
    /\ ret' = [ret EXCEPT ![t] = Ret("Close", "ok", NilPool, <<>>, NilErr)]
    /\ Unlock(t)
    /\ pc' = [pc EXCEPT ![t] = "idle"]
    /\ idx' = [idx EXCEPT ![t] = 0]
    /\ UNCHANGED <<ctorVars, pingLog, pools, shards, numShards, shardIndexFunc>>
    /\ UNCHANGED <<key, fn, visible>>

\* ----------------------------------------------------------- specification
Next ==
    \/ NewConnect
    \/ NewReturn
    \/ \E t \in Threads, f \in CustomFuncs : SetCall(t, f)
    \/ \E t \in Threads : SetLock(t)
    \/ \E t \in Threads : SetShardIndexFunc(t)
    \/ \E t \in Threads, k \in Keys : ShardCall(t, k)
    \/ \E t \in Threads : ShardReturn(t)
    \/ \E t \in Threads : ShardsCall(t)
    \/ \E t \in Threads : ShardsLock(t)
    \/ \E t \in Threads : Shards(t)
    \/ \E t \in Threads : PingCall(t)
    \/ \E t \in Threads : PingLock(t)
    \/ \E t \in Threads : PingStep(t)
    \/ \E t \in Threads : Ping(t)
    \/ \E t \in Threads : CloseCall(t)
    \/ \E t \in Threads : CloseLock(t)
    \/ \E t \in Threads : CloseStep(t)
    \/ \E t \in Threads : Close(t)

Spec == Init /\ [][Next]_vars

\* New alone: the manager is not shared before New returns it
NextNew == NewConnect \/ NewReturn

SpecNew == Init /\ [][NextNew]_vars

\* ------------------------------------------------------------------ claims
\* the step in which goroutine t's Shard call loads s.shardIndexFunc
ShardLoads(t) == pc[t] = "idle" /\ pc'[t] = "shard_call"

\* the step in which goroutine t's Shard call returns or panics
ShardEnds(t) == pc[t] = "shard_call" /\ pc'[t] # "shard_call"

\* the step in which goroutine t's Ping call returns
PingEnds(t) == pc[t] = "ping_loop" /\ pc'[t] = "idle"

\* C1: Shard reads the routing function, and SetShardIndexFunc writes it,
\* under the manager's lock: no Shard call loads s.shardIndexFunc while a
\* SetShardIndexFunc call is inside its critical section.
C1_ReadsExcludeReplacement ==
    [][\A t \in Threads : ShardLoads(t) =>
        \A u \in Threads : pc[u] # "set_store"]_vars

\* C2: when the function Shard called returns an index below 0, or at or
\* above numShards, Shard returns an out-of-range error and the nil pool: it
\* neither panics on the slice nor returns some pool.
C2_OutOfRangeRejected ==
    [][\A t \in Threads : ShardEnds(t) =>
        LET r == CallIndexFunc(fn[t], key[t], numShards, intBits) IN
        (r.kind = "ok" /\ (r.index < 0 \/ r.index >= numShards)) =>
            /\ ret'[t].op = "Shard"
            /\ ret'[t].kind = "err"
            /\ ret'[t].pool = NilPool
            /\ ret'[t].err = Err("shard index %d is out of range", <<r.index>>, "")
            /\ pc'[t] = "idle"]_vars

\* C2, its case: a lookup was refused for the index numShards itself, one
\* past the last shard
C2_Witness ==
    \E t \in Threads :
        /\ numShards = 1
        /\ ret[t].op = "Shard" /\ ret[t].kind = "err"
        /\ ret[t].err.args = <<numShards>>

\* C3: a manager made from no connection strings has zero shards, and every
\* Shard call on it returns an error: none crashes.
C3_EmptyManagerLookupsFail ==
    \A t \in Threads :
        (Ready /\ SliceLen(connectionStrings) = 0 /\ ret[t].op = "Shard") =>
            (numShards = 0 /\ ret[t].kind = "err" /\ pc[t] # "panicked")

\* the mathematical v mod n of a wide integer v, in 0..n-1: what the
\* specification asks of the default function
MathMod(v, n) == (((v.hi % n) * (W % n)) + v.lo) % n

\* C4: for N >= 1 shards and every integer key k, negative ones too, the
\* default function returns k mod N, an index in 0..N-1.
C4_IntegerKeysModN ==
    \A t \in Threads :
        (pc[t] = "shard_call" /\ key[t].type \in {"int", "int32", "int64"} /\ numShards >= 1) =>
            LET r == defaultShardIndexFunc(key[t], numShards, intBits) IN
            /\ r = Returns(MathMod(key[t].val, numShards))
            /\ r.index \in 0..(numShards - 1)

\* C5: a Shard call that starts when no SetShardIndexFunc call is under way
\* uses the function of the last one that returned (the default if there was
\* none); one that starts while replacements are under way uses that
\* function or one of theirs, and no other.
C5_LookupUsesLatest ==
    [][\A t \in Threads : ShardLoads(t) =>
        fn'[t] \in ({shardIndexFunc} \cup { fn[u] : u \in Replacing })]_vars

\* C6: when New fails at position p, every pool it opened for the positions
\* before p has been closed by the time it returns the error.
C6_FailedNewClosesPools ==
    newPc = "failed" => \A p \in 1..Len(pools) : pools[p].state = "closed"

\* the first position whose connection string cannot be connected
FirstUnreachable ==
    CHOOSE i \in DOMAIN connectionStrings :
        /\ ~PoolNewOk(connectionStrings[i])
        /\ \A j \in 0..(i - 1) : PoolNewOk(connectionStrings[j])

SomeUnreachable == \E i \in DOMAIN connectionStrings : ~PoolNewOk(connectionStrings[i])

\* C7: when some target cannot be connected, New returns no manager, and the
\* error it returns names the first such position.
C7_NewFailsAtFirstUnreachable ==
    SomeUnreachable =>
        /\ newPc # "done"
        /\ newRet.mgr = FALSE
        /\ shardIndexFunc = "none" /\ shards = <<>>
        /\ newPc = "failed" =>
            /\ newRet.err.msg = "failed to connect to shard %d: %v"
            /\ newRet.err.args = <<FirstUnreachable>>
            /\ newI = FirstUnreachable

\* C7, its case: New failed at position 1, after it connected position 0
C7_Witness ==
    /\ newPc = "failed"
    /\ Len(pools) = 1
    /\ newRet.err.args = <<1>>

\* C8: when every target can be connected, New returns a manager of exactly
\* K shards, the pool at index i being the one opened for target i, with
\* numShards = K and the default function installed.
C8_NewBuildsShardsInOrder ==
    /\ [](Ready =>
            /\ newRet = [mgr |-> TRUE, err |-> NilErr]
            /\ DOMAIN shards = DOMAIN connectionStrings
            /\ numShards = SliceLen(connectionStrings)
            /\ \A i \in DOMAIN shards :
                /\ shards[i] \in 1..Len(pools)
                /\ pools[shards[i]].dsn = connectionStrings[i]
            /\ \A i, j \in DOMAIN shards : i # j => shards[i] # shards[j])
    /\ [][(newPc = "loop" /\ newPc' = "done") =>
            /\ ~SomeUnreachable
            /\ shardIndexFunc' = "default"
            /\ \A p \in 1..Len(pools') : pools'[p].state = "open"]_vars

\* C8, its case: a manager over two different databases, given in the order
\* flaky, up
C8_Witness ==
    /\ Ready
    /\ numShards = 2
    /\ connectionStrings[0] = "flaky" /\ connectionStrings[1] = "up"

\* a shard answers pings: its pool is open and its database reachable
Healthy(i) == PoolPing(shards[i]) = NilErr

\* C9: Ping returns nil when every shard is healthy; otherwise it returns
\* the failure of the first unhealthy shard, and the error names that
\* shard's position.
C9_PingNamesFirstFailure ==
    [][\A t \in Threads : PingEnds(t) =>
        IF \A i \in DOMAIN shards : Healthy(i)
        THEN ret'[t].kind = "ok" /\ ret'[t].err = NilErr
        ELSE LET p == CHOOSE i \in DOMAIN shards :
                        ~Healthy(i) /\ \A j \in 0..(i - 1) : Healthy(j)
             IN  /\ ret'[t].kind = "err"
                 /\ ret'[t].err.msg = PoolPing(shards[p]).msg
                 /\ ret'[t].err.args = <<p>>]_vars

\* C10: for N >= 1 shards and every string key, the default function returns
\* CRC32-IEEE(key) mod N, an index in 0..N-1, the same for the same key and N
\* whatever the manager did in between.
C10_TextKeysCrcModN ==
    \A t \in Threads :
        (pc[t] = "shard_call" /\ key[t].type = "string" /\ numShards >= 1) =>
            LET r == defaultShardIndexFunc(key[t], numShards, intBits) IN
            /\ r = Returns(MathMod(ChecksumIEEE(key[t].bytes), numShards))
            /\ r.index \in 0..(numShards - 1)

\* the key types the default function has a case for
SupportedKeyTypes == {"int", "int32", "int64", "string"}

\* C11: for a key that is neither a supported integer nor text the default
\* function fails with the unsupported-key-type error, whatever the number of
\* shards; Shard returns that error and no pool, and leaves the routing
\* function, the shard slice and the pools as they were.
C11_UnsupportedKeyRejected ==
    [][\A t \in Threads :
        (ShardEnds(t) /\ fn[t] = "default" /\ key[t].type \notin SupportedKeyTypes) =>
            /\ defaultShardIndexFunc(key[t], numShards, intBits)
                    = Fails(Err("shard key type not supported", <<>>, ""))
            /\ pc'[t] = "idle"
            /\ ret'[t] = Ret("Shard", "err", NilPool, <<>>,
                             Err("shard key type not supported", <<>>, ""))
            /\ UNCHANGED <<shardIndexFunc, shards, numShards, pools>>]_vars

\* C11, its case: a lookup on a manager with shards was refused for its key's
\* type
C11_Witness ==
    \E t \in Threads :
        /\ numShards >= 1
        /\ ret[t].op = "Shard" /\ ret[t].kind = "err"
        /\ ret[t].err.msg = "shard key type not supported"

\* the step in which goroutine t's Close call returns
CloseEnds(t) == pc[t] = "close_loop" /\ pc'[t] = "idle"

\* every pool of the shard slice is closed
AllClosed == \A i \in DOMAIN shards : pools[shards[i]].state = "closed"

\* C12: when Close returns, every pool of the shard slice is closed; and a
\* closed pool stays closed, whatever the manager's operations (Shard,
\* SetShardIndexFunc, Shards, Ping, Close) do afterwards.
C12_CloseClosesAllForGood ==
    /\ [][\A t \in Threads : CloseEnds(t) =>
            /\ ret'[t] = Ret("Close", "ok", NilPool, <<>>, NilErr)
            /\ \A i \in DOMAIN shards : pools'[shards[i]].state = "closed"]_vars
    /\ [][\A p \in 1..Len(pools) : pools[p].state = "closed" =>
            /\ p \in 1..Len(pools')
            /\ pools'[p].state = "closed"]_vars

\* C12, its case: Close returned on a manager of three shards, and a Ping
\* that came after it found the first shard closed
C12_Witness ==
    \E t, u \in Threads :
        /\ numShards = 3 /\ AllClosed
        /\ ret[t].op = "Close"
        /\ ret[u].op = "Ping" /\ ret[u].err.msg = "closed pool"

\* C13: a Close call made when every pool of the shard slice is closed
\* already (a repeated Close) does not crash, returns nil, and leaves the
\* manager as the earlier Close left it: the same shard slice, numShards,
\* routing function and pool states, and the lock free again.
C13_CloseIdempotent ==
    [][\A t \in Threads : (pc[t] = "close_loop" /\ AllClosed) =>
        /\ pc'[t] \in {"close_loop", "idle"}
        /\ UNCHANGED <<pools, shards, numShards, shardIndexFunc>>
        /\ pc'[t] = "idle" =>
            /\ ret'[t] = Ret("Close", "ok", NilPool, <<>>, NilErr)
            /\ mu' = 0]_vars

\* C13, its case: both goroutines closed a manager of two shards, so one of
\* the two calls came after the other had closed every pool
C13_Witness ==
    /\ numShards = 2 /\ AllClosed /\ mu = 0
    /\ \A t \in Threads : ret[t] = Ret("Close", "ok", NilPool, <<>>, NilErr)

\* C14: once New returned the manager, whatever Shard, SetShardIndexFunc,
\* Shards, Ping and Close calls were made since, the shard slice is the one
\* New built, pool i being the pool of target i, numShards is its length,
\* and what a Shards call returned is that slice, with no error.
C14_ShardsStable ==
    Ready =>
        /\ shards = newShards
        /\ DOMAIN shards = 0..(numShards - 1)
        /\ numShards = SliceLen(connectionStrings)
        /\ \A i \in DOMAIN shards :
            /\ shards[i] \in 1..Len(pools)
            /\ pools[shards[i]].dsn = connectionStrings[i]
        /\ \A t \in Threads : ret[t].op = "Shards" =>
            /\ ret[t].kind = "ok" /\ ret[t].err = NilErr
            /\ ret[t].list = shards

\* C14, its case: Shards returned the three pools of a manager made for the
\* targets flaky, up, up, which the other goroutine has closed
C14_Witness ==
    \E t, u \in Threads :
        /\ numShards = 3
        /\ connectionStrings[0] = "flaky" /\ connectionStrings[1] = "up"
        /\ ret[u].op = "Close"
        /\ ret[t].op = "Shards" /\ SliceLen(ret[t].list) = 3
        /\ pools[ret[t].list[0]].dsn = "flaky"

\* the sequence 0, 1, ..., n-1
UpTo(n) == [j \in 1..n |-> j - 1]

\* C15: nothing is tried twice. New calls pgxpool.New for the targets 0, 1,
\* ... once each, in order, stops at the first one that fails and returns
\* its error. Ping calls shard.Ping for the shards 0, 1, ... once each, in
\* order, and the first failure ends the call in the same step, with that
\* shard's error.
C15_NoRetries ==
    /\ [](/\ connLog = UpTo(Len(connLog))
          /\ newPc = "failed" =>
                /\ Len(connLog) = FirstUnreachable + 1
                /\ newRet.err # NilErr
          /\ newPc = "done" => Len(connLog) = SliceLen(connectionStrings))
    /\ [][newPc # "loop" => connLog' = connLog]_vars
    /\ [](\A t \in Threads : pc[t] = "ping_loop" =>
            /\ pingLog = UpTo(idx[t])
            /\ \A j \in 0..(idx[t] - 1) : Healthy(j))
    /\ [][\A t \in Threads :
            /\ PingEnds(t) =>
                IF ret'[t].kind = "err"
                THEN /\ idx[t] < numShards /\ ~Healthy(idx[t])
                     /\ ret'[t].err = PoolPing(shards[idx[t]])
                ELSE /\ idx[t] = numShards
                     /\ ret'[t].err = NilErr
            /\ ( /\ pc[t] = "ping_loop" /\ idx[t] < numShards /\ ~Healthy(idx[t])
                 /\ <<pc[t], idx[t], pingLog>>' # <<pc[t], idx[t], pingLog>> ) =>
                (PingEnds(t) /\ ret'[t].kind = "err")]_vars

\* C15, its case: a Ping over the targets up, up, flaky returned the failure
\* of the third shard
C15_Witness ==
    \E t \in Threads :
        /\ numShards = 3 /\ connLog = <<0, 1, 2>>
        /\ connectionStrings[0] = "up" /\ connectionStrings[1] = "up"
        /\ connectionStrings[2] = "flaky"
        /\ ret[t].op = "Ping" /\ ret[t].err.msg = "ping failed"

\* goroutine t takes a step of a SetShardIndexFunc call: the call, the lock
\* or the store and return
SetSteps(t) ==
    /\ pc'[t] # pc[t]
    /\ pc[t] \in {"set_lock", "set_store"} \/ pc'[t] \in {"set_lock", "set_store"}

\* C16: SetShardIndexFunc changes the routing function and nothing else. No
\* step of the call changes the shard slice, numShards or the state of a
\* pool, whatever state the manager is in; the call ends by returning, with
\* its argument installed and the lock free.
C16_SetChangesOnlyFunc ==
    [][\A t \in Threads : SetSteps(t) =>
        /\ UNCHANGED <<shards, numShards, pools>>
        /\ pc[t] # "set_store" => UNCHANGED shardIndexFunc
        /\ pc[t] = "set_store" =>
            /\ pc'[t] = "idle"
            /\ ret'[t] = Ret("SetShardIndexFunc", "ok", NilPool, <<>>, NilErr)
            /\ shardIndexFunc' = fn[t]
            /\ mu' = 0]_vars

\* C16, its case: one goroutine closed a manager of two shards and then
\* replaced its routing function; the other made no call
C16_Witness ==
    \E t \in Threads :
        /\ numShards = 2 /\ AllClosed
        /\ ret[t].op = "SetShardIndexFunc" /\ pc[t] = "idle"
        /\ shardIndexFunc \in CustomFuncs
        /\ \A u \in Threads \ {t} : pc[u] = "idle" /\ ret[u] = NoRet

\* goroutine t waits in s.mu.Lock()
Waiting(t) == pc[t] \in {"set_lock", "shards_lock", "ping_lock", "close_lock"}

\* goroutine t is between s.mu.Lock() and the deferred s.mu.Unlock()
Holding(t) == pc[t] \in {"set_store", "shards_ret", "ping_loop", "close_loop"}

\* what the scheduler and sync.Mutex give: a goroutine that holds the lock
\* goes on (the pool's Ping and Close return), and a goroutine that waits in
\* Lock is not passed over for ever (a sync.Mutex whose waiter starves hands
\* the lock to the waiter at the front of its queue)
Fairness ==
    \A t \in Threads :
        /\ WF_vars(SetShardIndexFunc(t) \/ Shards(t) \/ PingStep(t) \/ Ping(t)
                        \/ CloseStep(t) \/ Close(t))
        /\ SF_vars(SetLock(t) \/ ShardsLock(t) \/ PingLock(t) \/ CloseLock(t))

\* the width of int plays no part in the locking: the fair specification
\* is the one of the 64-bit build
InitFair == Init /\ intBits = 64

SpecFair == InitFair /\ [][Next]_vars /\ Fairness

\* C17: the lock is held by a goroutine exactly while that goroutine is
\* between Lock and the return of SetShardIndexFunc, Shards, Ping or Close:
\* every return, Ping's early one too, releases it, so the lock is free when
\* no call is under way; and a goroutine that waits for the lock gets it.
C17_LockReleased ==
    /\ [](/\ mu \in {0} \cup Threads
          /\ \A t \in Threads : (mu = t) <=> Holding(t)
          /\ (\A t \in Threads : pc[t] \in {"idle", "panicked"}) => mu = 0)
    /\ \A t \in Threads : Waiting(t) ~> (mu = t)

\* C17, its case: Ping returned early, on the failure of the first of two
\* shards, and the goroutine that waited for the lock meanwhile holds it
C17_Witness ==
    \E t, u \in Threads :
        /\ numShards = 2 /\ connectionStrings[0] = "flaky"
        /\ ret[t].op = "Ping" /\ ret[t].err.msg = "ping failed" /\ pc[t] = "idle"
        /\ u # t /\ mu = u /\ pc[u] = "set_store"

\* C18: Shard takes no lock. While another goroutine holds the lock inside
\* Ping or Close, a lookup can start and a lookup under way can return; a
\* SetShardIndexFunc, Shards, Ping or Close call of another goroutine
\* cannot get past Lock until the lock is released.
C18_LookupNeverWaits ==
    \A t \in Threads :
        /\ pc[t] = "shard_call" =>
            \E r \in {Shard(fn[t], key[t])} : ENABLED ShardReturns(t, r)
        /\ (Ready /\ pc[t] = "idle") => \A k \in Keys : ENABLED ShardCall(t, k)
        /\ \A u \in Threads \ {t} : pc[u] \in {"ping_loop", "close_loop"} =>
            /\ mu = u
            /\ ~ENABLED SetLock(t)
            /\ ~ENABLED ShardsLock(t)
            /\ ~ENABLED PingLock(t)
            /\ ~ENABLED CloseLock(t)

\* C18, its case: a lookup is under way while the other goroutine is inside
\* Ping, past the first of two shards, with the lock
C18_Witness ==
    \E t, u \in Threads :
        /\ numShards = 2
        /\ pc[u] = "ping_loop" /\ idx[u] = 1 /\ mu = u
        /\ pc[t] = "shard_call"

\* C19: what Shard returns is decided by the key, the routing function the
\* call loaded and the shard slice, not by whether the pools are open: a
\* lookup whose index is in range returns the pool at that index and no
\* error, also when Close is under way or has returned, so the pool handed
\* out may be closed.
C19_LookupIgnoresLifecycle ==
    [][\A t \in Threads : ShardEnds(t) =>
        LET r == CallIndexFunc(fn[t], key[t], numShards, intBits) IN
        (r.kind = "ok" /\ r.index \in 0..(numShards - 1)) =>
            /\ pc'[t] = "idle"
            /\ ret'[t] = Ret("Shard", "ok", shards[r.index], <<>>, NilErr)]_vars

\* C19, its case: one goroutine closed a manager of two shards and then
\* looked a key up, and was handed a closed pool; the other made no call
C19_Witness ==
    \E t \in Threads :
        /\ numShards = 2 /\ AllClosed
        /\ pc[t] = "idle" /\ ret[t].op = "Shard" /\ ret[t].kind = "ok"
        /\ ret[t].pool \in 1..Len(pools)
        /\ pools[ret[t].pool].state = "closed"
        /\ \A u \in Threads \ {t} : pc[u] = "idle" /\ ret[u] = NoRet

=============================================================================
